---------------------------- MODULE Spec2Model ----------------------------
(***************************************************************************)
(* Model of rust_mpc: the Polynomial value type (src/src/util/             *)
(* polynomials.rs), the Shamir engine (src/src/util/shamir.rs) and the     *)
(* SecretService built on them (src/src/services/SecretService.rs).        *)
(*                                                                         *)
(* PolySpec exercises the Polynomial operations on bounded inputs; Spec    *)
(* follows one sharing session: an engine construction, or a               *)
(* secretPartition call (coordinate draws included) followed by a          *)
(* getSecret call on shares of that session.                               *)
(***************************************************************************)
EXTENDS Integers, Sequences, FiniteSets, TLC

(***************************************************************************)
(* Bounds of the model.                                                    *)
(***************************************************************************)
\* longest raw coefficient list handed to a Polynomial constructor
MaxLen == 3
\* U256 is modelled with U256Bits bits instead of 256; the u128 random
\* coefficients of polynomialGenerator with half as many
U256Bits == 10

U256Max == 2 ^ U256Bits - 1
U128Max == 2 ^ (U256Bits \div 2) - 1

(***************************************************************************)
(* Outcomes of a call: a returned value or a panic with its message.       *)
(***************************************************************************)
Ok(v) == [kind |-> "ok", val |-> v]
Panic(m) == [kind |-> "panic", msg |-> m]
IsOk(o) == o.kind = "ok"
IsPanic(o) == o.kind = "panic"

(***************************************************************************)
(* BigDecimal.  A value is the reduced fraction <<n, d>>, d >= 1; equality *)
(* of BigDecimals is equality of values, whatever their scale, which is    *)
(* equality of reduced fractions.  Sums, differences and products of       *)
(* BigDecimals are exact.  A quotient is exact when its decimal expansion  *)
(* ends and is cut to 100 digits otherwise; the cut is not modelled (the   *)
(* only quotients are those of fromValues).                                *)
(***************************************************************************)
Abs(n) == IF n < 0 THEN -n ELSE n

RECURSIVE Gcd(_, _)
Gcd(a, b) == IF b = 0 THEN a ELSE Gcd(b, a % b)

BDNorm(n, d) ==
    LET s == IF d < 0 THEN -1 ELSE 1
        g == Gcd(Abs(n), Abs(d))
    IN  <<(s * n) \div g, (s * d) \div g>>

BD(n) == <<n, 1>>
BDAdd(a, b) == BDNorm(a[1] * b[2] + b[1] * a[2], a[2] * b[2])
BDSub(a, b) == BDNorm(a[1] * b[2] - b[1] * a[2], a[2] * b[2])
BDMul(a, b) == BDNorm(a[1] * b[1], a[2] * b[2])
\* a / b for b # 0 (the crate panics "Division by zero" for b = 0)
BDDiv(a, b) == BDNorm(a[1] * b[2], a[2] * b[1])
BDIsInt(a) == a[2] = 1

\* BigDecimal::to_string followed by U256::from_str_radix(_, 10): the text
\* parses when it is a run of decimal digits (no sign, no point) whose value
\* fits the word
U256FromDec(a) ==
    IF BDIsInt(a) /\ a[1] >= 0 /\ a[1] <= U256Max
    THEN Ok(a[1])
    ELSE Panic("unwrap on Err: invalid digit or overflow")

\* U256 * U256: panics on overflow
U256Mul(a, b) ==
    IF a # 0 /\ b > U256Max \div a
    THEN Panic("arithmetic operation overflow")
    ELSE Ok(a * b)

\* U256::pow: the crate squares and multiplies, and every product it forms
\* is a power of x no greater than the result, so it overflows exactly when
\* the result does.  x.pow(0) is 1, also for x = 0.
RECURSIVE U256Pow(_, _)
U256Pow(x, n) ==
    IF n = 0 THEN Ok(1)
    ELSE LET r == U256Pow(x, n - 1)
         IN  IF IsPanic(r) THEN r ELSE U256Mul(r.val, x)

(***************************************************************************)
(* Polynomial                                                              *)
(***************************************************************************)
Polynomial(c, ind) == [coefficients |-> c, indeterminate |-> ind]

RECURSIVE StripAmount(_, _)
StripAmount(list, object) ==
    IF list # <<>> /\ list[Len(list)] = object
    THEN 1 + StripAmount(SubSeq(list, 1, Len(list) - 1), object)
    ELSE 0

\* strip_from_end stopping after one trailing object
strip_one_from_end(list, object) ==
    IF list # <<>> /\ list[Len(list)] = object
    THEN SubSeq(list, 1, Len(list) - 1)
    ELSE list

strip_from_end(list, object) ==
    SubSeq(list, 1, Len(list) - StripAmount(list, object))

Polynomial_new(coefficients, indeterminate) ==
    LET stripped_coefficients == strip_from_end(coefficients, BD(0))
    IN  IF Len(stripped_coefficients) = 0
        THEN Polynomial(<<BD(0)>>, indeterminate)
        ELSE Polynomial(stripped_coefficients, indeterminate)

from_ints(coefficients, indeterminate) ==
    LET stripped_coefficients == strip_from_end(coefficients, BD(0))
    IN  IF Len(stripped_coefficients) = 0
        THEN Polynomial(<<BD(0)>>, indeterminate)
        ELSE Polynomial([k \in 1..Len(stripped_coefficients) |->
                            stripped_coefficients[k]], indeterminate)

\* Vec::resize(n, 0) of a list no longer than n
Resize(list, n) == [k \in 1..n |-> IF k <= Len(list) THEN list[k] ELSE BD(0)]

add(self, other) ==
    LET a == self.coefficients
        b == other.coefficients
        n == IF Len(a) < Len(b) THEN Len(b) ELSE Len(a)
        a_coefficients == Resize(a, n)
        b_coefficients == Resize(b, n)
        new_coefficients ==
            [k \in 1..n |-> BDAdd(a_coefficients[k], b_coefficients[k])]
    IN  Polynomial_new(new_coefficients, "x")

\* sub adding other as it is
sub_unnegated(self, other) == add(self, other)

sub(self, other) ==
    LET negative_coefficients ==
            [k \in 1..Len(other.coefficients) |->
                BDMul(other.coefficients[k], BD(-1))]
        negative == Polynomial_new(negative_coefficients, "x")
    IN  add(self, negative)

\* The loops of multiply over the buffer buf (0-based index i + j is place
\* i + j + 1 here), in the order the code runs them; pairs (i, j) are
\* numbered p = i * Len(b) + j.  An index outside the buffer panics.
RECURSIVE MultiplyLoop(_, _, _, _)
MultiplyLoop(buf, a, b, p) ==
    IF p >= Len(a) * Len(b) THEN Ok(buf)
    ELSE LET i == p \div Len(b)
             j == p % Len(b)
         IN  IF i + j + 1 > Len(buf)
             THEN Panic("index out of bounds")
             ELSE MultiplyLoop(
                    [buf EXCEPT ![i + j + 1] =
                        BDAdd(@, BDMul(a[i + 1], b[j + 1]))],
                    a, b, p + 1)

\* multiply taken coefficient by coefficient: place k holds a[k] * b[k]
multiply_pointwise(self, other) ==
    LET a == self.coefficients
        b == other.coefficients
        n == IF Len(a) < Len(b) THEN Len(a) ELSE Len(b)
    IN  Ok(Polynomial_new([k \in 1..n |-> BDMul(a[k], b[k])], "x"))

multiply(self, other) ==
    LET a == self.coefficients
        b == other.coefficients
        r == MultiplyLoop([k \in 1..(Len(a) * Len(b)) |-> BD(0)], a, b, 0)
    IN  IF IsPanic(r) THEN r ELSE Ok(Polynomial_new(r.val, "x"))

\* The loop of evaluate_at from 0-based index degree on, sum being the
\* value so far.
RECURSIVE EvaluateLoop(_, _, _, _)
EvaluateLoop(coefficients, determinate, degree, sum) ==
    IF degree >= Len(coefficients) THEN Ok(sum)
    ELSE LET tmp == U256FromDec(determinate)
             tmp2 == U256FromDec(coefficients[degree + 1])
         IN  IF IsPanic(tmp) THEN tmp
             ELSE IF IsPanic(tmp2) THEN tmp2
             ELSE LET pw == U256Pow(tmp.val, degree)
                  IN  IF IsPanic(pw) THEN pw
                      ELSE LET addend == U256Mul(pw.val, tmp2.val)
                           IN  IF IsPanic(addend) THEN addend
                               ELSE EvaluateLoop(coefficients, determinate,
                                        degree + 1,
                                        BDAdd(sum, BD(addend.val)))

evaluate_at(self, determinate) ==
    EvaluateLoop(self.coefficients, determinate, 0, BD(0))

Polynomial_degree(self) ==
    IF self.coefficients = <<BD(0)>> THEN -1
    ELSE Len(self.coefficients) - 1

\* Display of a BigDecimal: an integer prints as its digits, with a leading
\* "-" when negative.  (A value that is no integer prints its decimal
\* expansion; here it is written n/d.)
BDToString(a) ==
    IF BDIsInt(a) THEN ToString(a[1])
    ELSE ToString(a[1]) \o "/" \o ToString(a[2])

\* The loop of as_string from 0-based index degree on, terms being the text
\* so far.
RECURSIVE AsStringLoop(_, _, _, _)
AsStringLoop(coefficients, ind, deg, terms) ==
    IF deg >= Len(coefficients) THEN terms
    ELSE LET coeff == coefficients[deg + 1]
         IN  IF deg = 0
             THEN AsStringLoop(coefficients, ind, 1, BDToString(coeff))
             ELSE IF deg = 1
             THEN AsStringLoop(coefficients, ind, 2,
                    terms \o " + " \o BDToString(coeff) \o ind)
             ELSE IF coeff = BD(0)
             THEN AsStringLoop(coefficients, ind, deg + 1, terms)
             ELSE AsStringLoop(coefficients, ind, deg + 1,
                    terms \o " + " \o BDToString(coeff) \o ind \o "^"
                          \o ToString(deg))

as_string(self) ==
    "f(" \o self.indeterminate \o ") = "
         \o AsStringLoop(self.coefficients, self.indeterminate, 0, "")

(***************************************************************************)
(* ShamirAlgorithm                                                         *)
(***************************************************************************)
None == [some |-> FALSE]
Some(v) == [some |-> TRUE, val |-> v]

\* new accepting degree 1
ShamirAlgorithm_new_from1(opt) ==
    LET x == IF opt.some THEN opt.val ELSE 2
    IN  IF x < 1
        THEN Panic("Degree must be greater than or equal to 2")
        ELSE Ok([degree |-> x])

ShamirAlgorithm_new(opt) ==
    LET x == IF opt.some THEN opt.val ELSE 2
    IN  IF x < 2
        THEN Panic("Degree must be greater than or equal to 2")
        ELSE Ok([degree |-> x])

\* cs: the values the random source returns, one per pass of the loop
\* polynomialGenerator handing its list over as it is
polynomialGenerator_raw(self, value, cs) ==
    Polynomial(<<value>> \o [k \in 1..self.degree |-> BD(cs[k])], "x")

polynomialGenerator(self, value, cs) ==
    Polynomial_new(<<value>> \o [k \in 1..self.degree |-> BD(cs[k])], "x")

\* The loops of fromValues, pairs (i, j) numbered p = i * (degree + 1) + j
\* and visited in the order of p; polynom and inner_polynom as in the code
\* (inner_polynom an Option).  values[k][0] of the code is values[k+1][1].
RECURSIVE FromValuesLoop(_, _, _, _, _)
FromValuesLoop(self, values, p, polynom, inner_polynom) ==
    LET n == self.degree + 1
        i == p \div n
        j == p % n
    IN  IF p >= n * n THEN Ok(polynom)
        ELSE IF i = j
        THEN \* no pair to visit; after the last j, line 49
             IF j = n - 1
             THEN FromValuesLoop(self, values, p + 1,
                     IF inner_polynom.some
                     THEN add(polynom, inner_polynom.val) ELSE polynom,
                     None)
             ELSE FromValuesLoop(self, values, p + 1, polynom, inner_polynom)
        ELSE IF j + 1 > Len(values) \/ i + 1 > Len(values)
        THEN Panic("index out of bounds")
        ELSE IF values[i + 1][1] = values[j + 1][1]
        THEN Panic("Division by zero")
        ELSE LET xi == values[i + 1][1]
                 xj == values[j + 1][1]
                 c1 == BDDiv(BDMul(BD(-1), xj), BDSub(xi, xj))
                 c2 == BDDiv(BD(1), BDSub(xi, xj))
                 coefs == <<BDMul(xi, c1), BDMul(xi, c2)>>
                 tmp == Polynomial_new(coefs, "x")
                 inner == IF inner_polynom.some THEN inner_polynom.val
                          ELSE Polynomial_new(<<BD(1)>>, "x")
                 prod == multiply(inner, tmp)
             IN  IF IsPanic(prod) THEN prod
                 ELSE IF j = n - 1
                 THEN FromValuesLoop(self, values, p + 1,
                         add(polynom, prod.val), None)
                 ELSE FromValuesLoop(self, values, p + 1, polynom,
                         Some(prod.val))

fromValues(self, values) ==
    IF ~(Len(values) <= self.degree)
    THEN Panic("Size must be greater than degree")
    ELSE FromValuesLoop(self, values, 0,
            Polynomial_new(<<BD(0)>>, "x"), None)

(***************************************************************************)
(* SecretService                                                           *)
(***************************************************************************)
\* gen_range(1..255): the exclusive end of the draw range.  The model's u8
\* ends at U8Max, and so does the range.
U8Max == 5
RandEnd == U8Max
RandRange == 1..(RandEnd - 1)

\* a pass of the loop that pushes without looking
PushAlways(result, rand) == Append(result, BD(rand))

\* one pass of the loop of getRandomDifferentNumbers with rand drawn
PushIfAbsent(result, rand) ==
    IF ~(\E k \in 1..Len(result) : result[k] = BD(rand))
    THEN Append(result, BD(rand))
    ELSE result

\* U256::from_str_radix(secret, 16), secret a sequence of hexadecimal digits
\* (most significant first); Err when the value does not fit the word
RECURSIVE HexValue(_, _)
HexValue(digits, acc) ==
    IF digits = <<>> THEN Ok(acc)
    ELSE IF acc * 16 + Head(digits) > U256Max
    THEN Panic("unwrap on Err: invalid digit or overflow")
    ELSE HexValue(Tail(digits), acc * 16 + Head(digits))

\* the loop of secretPartition from 0-based index i on
RECURSIVE PartitionLoop(_, _, _, _)
PartitionLoop(polynomial, rand_nums_, i, result) ==
    IF i >= Len(rand_nums_) THEN Ok(result)
    ELSE LET evaluation == evaluate_at(polynomial, rand_nums_[i + 1])
         IN  IF IsPanic(evaluation) THEN evaluation
             ELSE PartitionLoop(polynomial, rand_nums_, i + 1,
                    Append(result, <<rand_nums_[i + 1], evaluation.val>>))

\* secretPartition after getRandomDifferentNumbers has returned rand_nums_
PartitionRest(shamir, secret, rand_nums_, cs) ==
    LET parsed == HexValue(secret, 0)
    IN  IF IsPanic(parsed) THEN parsed
        ELSE PartitionLoop(polynomialGenerator(shamir, BD(parsed.val), cs),
                           rand_nums_, 0, <<>>)

getSecret(deg, values) ==
    LET shamir == ShamirAlgorithm_new(Some(deg))
    IN  IF IsPanic(shamir) THEN shamir
        ELSE LET polynom == fromValues(shamir.val, values)
             IN  IF IsPanic(polynom) THEN polynom
                 ELSE Ok(as_string(polynom.val))

(***************************************************************************)
(* The create_user handler and the two collections                         *)
(***************************************************************************)
\* a + b on u8, as the two builds compute it past the largest value: with
\* overflow checks the addition panics, without them it wraps
U8Add(a, b) ==
    IF a + b > U8Max
    THEN {Panic("attempt to add with overflow"), Ok((a + b) % (U8Max + 1))}
    ELSE {Ok(a + b)}

Wallet_new(pub_key, degree) == [pub_key |-> pub_key, degree |-> degree]

\* the User the handler builds; wallets[0] of the code is wallets[1] here
User(eth_pub_key, btc_pub_key, degree) ==
    [wallets |-> <<Wallet_new(eth_pub_key, degree),
                   Wallet_new(btc_pub_key, degree)>>]

\* UserRepository::create_user on collection col: the id of a stored
\* document with these wallets if there is one, else the document is
\* inserted under a new id
UserRepository_create_user(col, new_user) ==
    IF \E u \in col : u.wallets = new_user.wallets
    THEN [col |-> col,
          id |-> (CHOOSE u \in col : u.wallets = new_user.wallets).id]
    ELSE [col |-> col \cup {[id |-> Cardinality(col) + 1,
                             wallets |-> new_user.wallets]},
          id |-> Cardinality(col) + 1]

\* the documents inner_save_secret maps the shares to
MappedSecrets(pub_key, user_id, partial_secret, secret_degree) ==
    [k \in 1..Len(partial_secret) |->
        [user_id |-> user_id,
         partial_secret |-> BDToString(partial_secret[k][1]) \o "||"
                               \o BDToString(partial_secret[k][2]),
         public_key |-> pub_key,
         secret_degree |-> secret_degree]]

\* SecretRepository::save_muliple_secret on collection col
save_muliple_secret(col, new_secrets) == col \o new_secrets

(***************************************************************************)
(* Inputs                                                                  *)
(***************************************************************************)
\* largest degree a caller asks for
MaxDegree == 3

\* the values of raw coefficients: negative, zero, positive
Coefs == {BD(-1), BD(0), BD(1)}
RawLists == UNION {[1..n -> Coefs] : n \in 0..MaxLen}
\* the coefficient list of test_strip_from_end_on_polynomial
TestVectors == {<<BD(1), BD(2), BD(0), BD(3), BD(0)>>}
EvalPoints == {BD(v) : v \in -1..2}

\* private keys as hexadecimal digits: 2a and 3ff
Secrets == {<<2, 10>>, <<3, 15, 15>>}
\* values the u128 random source returns
RandCoefs == {0, U128Max}
\* the values polynomialGenerator is called with: zero and the private keys
GenValues == {BD(0)} \cup {BD(HexValue(s, 0).val) : s \in Secrets}

\* the share lists a caller hands to getSecret: the first k shares of the
\* session, and those followed by a second copy of one of them
Prefix(s, k) == SubSeq(s, 1, k)
ReconInputs(s) ==
    {Prefix(s, k) : k \in 0..Len(s)} \cup
    {Append(Prefix(s, k), s[m]) : k \in 1..Len(s), m \in 1..Len(s)}

(***************************************************************************)
(* State                                                                   *)
(***************************************************************************)
VARIABLES
    rawA, rawB,  \* PolySpec: the coefficient lists of the two operands
    call,        \* PolySpec: the last Polynomial operation and its outcome
    pc,          \* Spec: where the session is
    req,         \* Spec: the arguments of secretPartition
    rand_nums,   \* Spec: result of getRandomDifferentNumbers, as it grows
    ret,         \* Spec: the last call of the session and its outcome
    users,       \* Spec: the documents of collection User
    partial_secrets,  \* Spec: the documents of collection PartialSecrets
    handler      \* Spec: the create_user request being served, if any

vars == <<rawA, rawB, call, pc, req, rand_nums, ret,
          users, partial_secrets, handler>>
polyVars == <<rawA, rawB, call>>
dbVars == <<users, partial_secrets, handler>>
svcVars == <<pc, req, rand_nums, ret, dbVars>>

NoOp == [op |-> "none"]

A == Polynomial_new(rawA, "x")
B == Polynomial_new(rawB, "x")

(***************************************************************************)
(* PolySpec: the Polynomial operations.  A behaviour picks the operands    *)
(* and makes one call: a Polynomial is never changed by a call, so a       *)
(* second call would start from the same operands.                         *)
(***************************************************************************)
PolyInit ==
    /\ rawA \in RawLists \cup TestVectors
    /\ rawB \in RawLists
    /\ call = NoOp
    /\ pc = "idle" /\ req = NoOp /\ rand_nums = <<>> /\ ret = NoOp
    /\ users = {} /\ partial_secrets = <<>> /\ handler = NoOp

CallNew ==
    /\ call = NoOp
    /\ call' = [op |-> "new", out |-> Ok(Polynomial_new(rawA, "x"))]
    /\ UNCHANGED <<rawA, rawB, svcVars>>

CallFromInts ==
    /\ call = NoOp
    /\ call' = [op |-> "from_ints", out |-> Ok(from_ints(rawA, "x"))]
    /\ UNCHANGED <<rawA, rawB, svcVars>>

CallAdd ==
    /\ call = NoOp
    /\ call' = [op |-> "add", out |-> Ok(add(A, B))]
    /\ UNCHANGED <<rawA, rawB, svcVars>>

CallSub ==
    /\ call = NoOp
    /\ call' = [op |-> "sub", out |-> Ok(sub(A, B))]
    /\ UNCHANGED <<rawA, rawB, svcVars>>

CallMultiply ==
    /\ call = NoOp
    /\ call' = [op |-> "multiply", out |-> multiply(A, B)]
    /\ UNCHANGED <<rawA, rawB, svcVars>>

CallEvaluateAt(v) ==
    /\ call = NoOp
    /\ call' = [op |-> "evaluate_at", at |-> v, out |-> evaluate_at(A, v)]
    /\ UNCHANGED <<rawA, rawB, svcVars>>

CallDegree ==
    /\ call = NoOp
    /\ call' = [op |-> "degree", out |-> Ok(Polynomial_degree(A))]
    /\ UNCHANGED <<rawA, rawB, svcVars>>

CallAsString ==
    /\ call = NoOp
    /\ call' = [op |-> "as_string", out |-> Ok(as_string(A))]
    /\ UNCHANGED <<rawA, rawB, svcVars>>

PolyNext ==
    \/ CallNew
    \/ CallFromInts
    \/ CallAdd
    \/ CallSub
    \/ CallMultiply
    \/ \E v \in EvalPoints : CallEvaluateAt(v)
    \/ CallDegree
    \/ CallAsString

PolySpec == PolyInit /\ [][PolyNext]_vars

(***************************************************************************)
(* Spec: one session of the SecretService                                  *)
(***************************************************************************)
Init ==
    /\ pc = "idle" /\ req = NoOp /\ rand_nums = <<>> /\ ret = NoOp
    /\ rawA = <<>> /\ rawB = <<>> /\ call = NoOp
    /\ users = {} /\ partial_secrets = <<>> /\ handler = NoOp

\* ShamirAlgorithm::new called on its own
NewEngine(opt) ==
    /\ pc = "idle"
    /\ ret' = [op |-> "new", opt |-> opt, out |-> ShamirAlgorithm_new(opt)]
    /\ pc' = "done"
    /\ UNCHANGED <<req, rand_nums, polyVars, dbVars>>

\* polynomialGenerator called on an engine of degree deg; cs are the random
\* coefficients it draws
GeneratePolynomial(deg, value) ==
    /\ pc = "idle"
    /\ \E cs \in [1..deg -> RandCoefs] :
         LET shamir == ShamirAlgorithm_new(Some(deg))
         IN  ret' = [op |-> "polynomialGenerator", degree |-> deg,
                     value |-> value, cs |-> cs,
                     out |-> Ok(polynomialGenerator(shamir.val, value, cs))]
    /\ pc' = "done"
    /\ UNCHANGED <<req, rand_nums, polyVars, dbVars>>

\* secretPartition up to the loop of getRandomDifferentNumbers
SecretPartitionBegin(deg, secret, parties) ==
    /\ req' = [degree |-> deg, secret |-> secret, parties |-> parties]
    /\ LET shamir == ShamirAlgorithm_new(Some(deg))
       IN  IF IsPanic(shamir)
           THEN /\ ret' = [op |-> "secretPartition", out |-> shamir]
                /\ pc' = "done"
           ELSE IF parties <= 2
           THEN /\ ret' = [op |-> "secretPartition",
                           out |-> Panic("Amount must be lower than 2")]
                /\ pc' = "done"
           ELSE /\ ret' = ret
                /\ pc' = "draw"
    /\ rand_nums' = <<>>

\* secretPartition called on its own
SplitBegin(deg, secret, parties) ==
    /\ pc = "idle"
    /\ SecretPartitionBegin(deg, secret, parties)
    /\ UNCHANGED <<polyVars, dbVars>>

\* one pass of the loop of getRandomDifferentNumbers
Draw(rand) ==
    /\ pc = "draw"
    /\ Len(rand_nums) # req.parties
    /\ rand_nums' = PushIfAbsent(rand_nums, rand)
    /\ UNCHANGED <<pc, req, ret, polyVars, dbVars>>

\* the rest of secretPartition, once the loop has ended; cs are the random
\* coefficients drawn by polynomialGenerator
SplitFinish ==
    /\ pc = "draw"
    /\ Len(rand_nums) = req.parties
    /\ \E cs \in [1..req.degree -> RandCoefs] :
         LET shamir == ShamirAlgorithm_new(Some(req.degree))
             out == PartitionRest(shamir.val, req.secret, rand_nums, cs)
         IN  /\ ret' = [op |-> "secretPartition", cs |-> cs, out |-> out]
             /\ pc' = IF IsOk(out) THEN "split" ELSE "done"
    /\ UNCHANGED <<req, rand_nums, polyVars, dbVars>>

\* getSecret on shares of the session, with the session's degree
GetSecret ==
    /\ pc = "split"
    /\ handler = NoOp
    /\ \E values \in ReconInputs(ret.out.val) :
         ret' = [op |-> "getSecret", values |-> values,
                 shares |-> ret.out.val,
                 out |-> getSecret(req.degree, values)]
    /\ pc' = "done"
    /\ UNCHANGED <<req, rand_nums, polyVars, dbVars>>

\* create_user up to the return of db.create_user: the wallets, the two
\* path parameters, the assert on holders_count and the User document
CreateUserBegin(degree, holders_count, private_key) ==
    /\ pc = "idle"
    /\ \E sum \in U8Add(degree, 1) :
         LET rejected ==
                IF IsPanic(sum) THEN sum
                ELSE Panic("Number of holders must be greater than or equal to the degree of the polynomial plus one")
             data == User("eth", "btc", degree)
             user_detail == UserRepository_create_user(users, data)
         IN  IF IsPanic(sum) \/ holders_count < sum.val
             THEN /\ handler' = [at |-> "panicked", degree |-> degree,
                                 holders_count |-> holders_count,
                                 out |-> rejected]
                  /\ users' = users
                  /\ pc' = "done"
             ELSE /\ handler' = [at |-> "created", degree |-> degree,
                                 holders_count |-> holders_count,
                                 private_key |-> private_key,
                                 data |-> data,
                                 user_detail |-> user_detail.id]
                  /\ users' = user_detail.col
                  /\ pc' = "handler"
    /\ UNCHANGED <<req, rand_nums, ret, partial_secrets, polyVars>>

\* create_user calling secretPartition, up to the loop of
\* getRandomDifferentNumbers
CreateUserPartition ==
    /\ pc = "handler"
    /\ SecretPartitionBegin(handler.data.wallets[1].degree,
                            handler.private_key, handler.holders_count)
    /\ handler' = [handler EXCEPT !.at = "partition"]
    /\ UNCHANGED <<users, partial_secrets, polyVars>>

\* create_user once secretPartition has returned: inner_save_secret and
\* the response
CreateUserSave ==
    /\ pc = "split"
    /\ handler # NoOp
    /\ partial_secrets' =
          save_muliple_secret(partial_secrets,
             MappedSecrets(handler.data.wallets[1].pub_key,
                           handler.user_detail, ret.out.val,
                           handler.data.wallets[1].degree))
    /\ handler' = [handler EXCEPT !.at = "responded"]
    /\ pc' = "done"
    /\ UNCHANGED <<req, rand_nums, ret, users, polyVars>>

Next ==
    \/ \E opt \in {None} \cup {Some(d) : d \in 0..MaxDegree} : NewEngine(opt)
    \/ \E deg \in 2..MaxDegree, value \in GenValues :
          GeneratePolynomial(deg, value)
    \/ \E deg \in 0..MaxDegree, secret \in Secrets, parties \in 0..U8Max :
          SplitBegin(deg, secret, parties)
    \/ \E rand \in RandRange : Draw(rand)
    \/ SplitFinish
    \/ GetSecret
    \/ \E degree \in (0..MaxDegree) \cup {U8Max}, holders_count \in 0..U8Max,
          private_key \in Secrets :
          CreateUserBegin(degree, holders_count, private_key)
    \/ CreateUserPartition
    \/ CreateUserSave

Spec == Init /\ [][Next]_vars

\* Spec with a fair random source: a value of the range that would change
\* the list is drawn at some pass of the loop, as long as the loop runs.
FairSpec == Spec /\ \A rand \in RandRange : WF_vars(Draw(rand))

(***************************************************************************)
(* Properties                                                              *)
(***************************************************************************)
\* the integer a private key denotes
RECURSIVE HexInt(_)
HexInt(digits) ==
    IF digits = <<>> THEN 0
    ELSE 16 * HexInt(SubSeq(digits, 1, Len(digits) - 1)) + digits[Len(digits)]

RECURSIVE IntPow(_, _)
IntPow(x, n) == IF n = 0 THEN 1 ELSE x * IntPow(x, n - 1)

\* the value at x of the polynomial with integer coefficients cf, as an
\* integer: the sum of cf[d + 1] * x^d
RECURSIVE IntEval(_, _)
IntEval(cf, x) ==
    IF cf = <<>> THEN 0
    ELSE IntEval(SubSeq(cf, 1, Len(cf) - 1), x)
           + cf[Len(cf)] * IntPow(x, Len(cf) - 1)

Xs(sh) == [k \in 1..Len(sh) |-> sh[k][1]]
Distinct(s) == \A i, j \in 1..Len(s) : i # j => s[i] # s[j]
ValidRequest(r) == r.degree >= 2 /\ r.parties >= r.degree + 1
SplitReturned == ret.op = "secretPartition" /\ IsOk(ret.out)

\* the failures of the code that stand for the error kinds of the design
InvalidParameters(o) ==
    IsPanic(o) /\ o.msg \in {"Degree must be greater than or equal to 2",
                            "Amount must be lower than 2"}
InsufficientShares(o) ==
    IsPanic(o) /\ o.msg = "Size must be greater than degree"
DuplicateCoordinate(o) ==
    IsPanic(o) /\ o.msg = "Division by zero"

\* C1: round trip.  getSecret with the session's degree t on t + 1 distinct
\* shares of a secretPartition of secret s (t >= 2, n >= t + 1) returns s.
C1_RoundTrip ==
    (/\ ret.op = "getSecret"
     /\ ValidRequest(req)
     /\ Len(ret.values) = req.degree + 1
     /\ Distinct(ret.values)
     /\ \A k \in 1..Len(ret.values) :
           \E m \in 1..Len(ret.shares) : ret.values[k] = ret.shares[m])
    => /\ IsOk(ret.out)
       /\ ret.out.val = "f(x) = " \o ToString(HexInt(req.secret))

\* C2: threshold enforcement.  fromValues with fewer than degree + 1 shares
\* fails with InsufficientShares and returns no value.
C2_InsufficientShares ==
    (ret.op = "getSecret" /\ Len(ret.values) < req.degree + 1)
    => InsufficientShares(ret.out)

\* C3: secretPartition validates first.  With degree < 2 or
\* parties < degree + 1 it fails with InvalidParameters: it draws no
\* coordinate and returns no shares.
C3_SplitValidates ==
    (req # NoOp /\ ~ValidRequest(req))
    => /\ pc \notin {"draw", "split"}
       /\ ret.op = "secretPartition" => InvalidParameters(ret.out)

\* C4: distinctness.  The x coordinates of the shares one secretPartition
\* call returns are pairwise distinct and nonzero; so are the coordinates
\* getRandomDifferentNumbers has collected at any point of its loop.
C4_DistinctCoordinates ==
    /\ Distinct(rand_nums) /\ \A k \in 1..Len(rand_nums) : rand_nums[k] # BD(0)
    /\ SplitReturned =>
          /\ Distinct(Xs(ret.out.val))
          /\ \A k \in 1..Len(ret.out.val) : ret.out.val[k][1] # BD(0)

\* a secretPartition call has returned more than three shares
C4_Witness == SplitReturned /\ Len(ret.out.val) > 3

\* C5: for degree >= 2 and parties >= degree + 1 secretPartition does not
\* fail; it returns parties shares (x, y), and y is the exact integer value
\* at x of one polynomial whose constant term is the secret.
C5_SplitTotal ==
    (ret.op = "secretPartition" /\ ValidRequest(req))
    => /\ IsOk(ret.out)
       /\ Len(ret.out.val) = req.parties
       /\ LET cf == <<HexInt(req.secret)>> \o ret.cs
          IN  \A k \in 1..Len(ret.out.val) :
                /\ BDIsInt(ret.out.val[k][1])
                /\ ret.out.val[k][2] =
                     BD(IntEval(cf, ret.out.val[k][1][1]))

\* C6: fromValues on a share list in which two shares have the same x
\* fails with DuplicateCoordinate: no value, no other error.
C6_DuplicateCoordinate ==
    (ret.op = "getSecret" /\ ~Distinct(Xs(ret.values)))
    => DuplicateCoordinate(ret.out)

\* C7: ShamirAlgorithm::new(Some(d)) fails for d < 2 and yields degree d
\* for d >= 2; new(None) yields degree 2; an engine a secretPartition call
\* went on with has degree >= 2.
C7_EngineDegree ==
    /\ ret.op = "new" =>
          IF ~ret.opt.some THEN ret.out = Ok([degree |-> 2])
          ELSE IF ret.opt.val < 2 THEN IsPanic(ret.out)
          ELSE ret.out = Ok([degree |-> ret.opt.val])
    /\ pc \in {"draw", "split"} => req.degree >= 2

\* new(Some(1)) was called and failed
C7_Witness ==
    ret.op = "new" /\ ret.opt.some /\ ret.opt.val = 1 /\ IsPanic(ret.out)

IsZeroList(list) == \A k \in 1..Len(list) : list[k] = BD(0)
Canonical(c) ==
    /\ Len(c) >= 1
    /\ c[Len(c)] # BD(0) \/ c = <<BD(0)>>

\* C8: normalization.  A Polynomial returned by new, from_ints, add, sub or
\* multiply has a non-empty coefficient list ending in a nonzero
\* coefficient, or is [0]; new and from_ints keep the list up to its last
\* nonzero coefficient and turn an empty or all-zero list into [0];
\* degree() is len - 1, and -1 exactly for [0]; new([1,2,0,3,0]) is
\* [1,2,0,3] of degree 3.
C8_Normalized ==
    /\ call.op \in {"new", "from_ints", "add", "sub", "multiply"} =>
          /\ IsOk(call.out)
          /\ Canonical(call.out.val.coefficients)
          /\ Polynomial_degree(call.out.val) =
                IF call.out.val.coefficients = <<BD(0)>> THEN -1
                ELSE Len(call.out.val.coefficients) - 1
    /\ call.op \in {"new", "from_ints"} =>
          LET c == call.out.val.coefficients
          IN  IF IsZeroList(rawA) THEN c = <<BD(0)>>
              ELSE /\ Len(c) <= Len(rawA)
                   /\ c = SubSeq(rawA, 1, Len(c))
                   /\ \A k \in (Len(c) + 1)..Len(rawA) : rawA[k] = BD(0)
    /\ (call.op = "new" /\ rawA \in TestVectors) =>
          /\ call.out.val.coefficients = <<BD(1), BD(2), BD(0), BD(3)>>
          /\ Polynomial_degree(call.out.val) = 3
    /\ call.op = "degree" =>
          call.out.val = IF A.coefficients = <<BD(0)>> THEN -1
                         ELSE Len(A.coefficients) - 1

\* new([1,2,0,3,0]) has returned
C8_Witness ==
    /\ call.op = "new" /\ rawA \in TestVectors
    /\ Len(call.out.val.coefficients) = 4

\* C9: for A and B built by new, (A.add(B)).sub(B) has the coefficients of
\* A, and A.sub(A) is [0].
C9_AddSubRoundTrip ==
    /\ call.op = "add" =>
          sub(call.out.val, B).coefficients = A.coefficients
    /\ (call.op = "sub" /\ A = B) =>
          call.out.val.coefficients = <<BD(0)>>

\* A.add(B) has returned a sum whose leading terms cancelled: it is shorter
\* than A, and not [0]
C9_Witness ==
    /\ call.op = "add"
    /\ Len(call.out.val.coefficients) < Len(A.coefficients)
    /\ call.out.val.coefficients # <<BD(0)>>

\* C10: A.evaluate_at(0) returns coefficients[0] of A, whatever the sign of
\* the coefficients.
C10_EvaluateAtZero ==
    (call.op = "evaluate_at" /\ call.at = BD(0))
    => call.out = Ok(A.coefficients[1])

\* the integers of a coefficient list whose values are all integers
IntsOf(coefficients) == [k \in 1..Len(coefficients) |-> coefficients[k][1]]

\* C11: evaluate_at is exact over the integers.  For integer coefficients
\* and an integer value, negative ones included, A.evaluate_at(v) returns
\* the sum of coefficients[d] * v^d: it does not fail, overflow or truncate.
C11_EvaluateExact ==
    (call.op = "evaluate_at" /\ BDIsInt(call.at)
        /\ \A k \in 1..Len(A.coefficients) : BDIsInt(A.coefficients[k]))
    => call.out = Ok(BD(IntEval(IntsOf(A.coefficients), call.at[1])))

\* the sum over i in lo..hi of a[i] * b[k - i], places counted from 0
RECURSIVE ConvSum(_, _, _, _, _)
ConvSum(a, b, k, lo, hi) ==
    IF lo > hi THEN 0
    ELSE a[lo + 1] * b[k - lo + 1] + ConvSum(a, b, k, lo + 1, hi)

\* coefficient k (from 0) of the product of the integer lists a and b
ConvAt(a, b, k) ==
    LET lo == IF k - (Len(b) - 1) > 0 THEN k - (Len(b) - 1) ELSE 0
        hi == IF k < Len(a) - 1 THEN k ELSE Len(a) - 1
    IN  ConvSum(a, b, k, lo, hi)

\* C12: A.multiply(B) is the discrete convolution: coefficient k of the
\* result is the sum over i + j = k of A[i] * B[j], the result is
\* normalized, and the buffer of len(A) * len(B) places is never indexed
\* out of range.
C12_MultiplyConvolution ==
    call.op = "multiply" =>
       /\ IsOk(call.out)
       /\ LET a == IntsOf(A.coefficients)
              b == IntsOf(B.coefficients)
              c == call.out.val.coefficients
              n == Len(a) + Len(b) - 1
          IN  /\ Canonical(c)
              /\ Len(c) <= n
              /\ \A k \in 1..n :
                    ConvAt(a, b, k - 1) =
                       IF k <= Len(c) THEN c[k][1] ELSE 0
              /\ \A k \in 1..Len(c) : BDIsInt(c[k])

\* a product of two polynomials of degree 2 has returned, of degree 4 and
\* with a middle coefficient that sums three products
C12_Witness ==
    /\ call.op = "multiply"
    /\ Len(A.coefficients) = 3 /\ Len(B.coefficients) = 3
    /\ Len(call.out.val.coefficients) = 5
    /\ call.out.val.coefficients[3] = BD(3)

\* the text of the terms of degree deg and above: " + c x" for degree 1,
\* " + c x^d" above it, and nothing for a zero coefficient
RECURSIVE TermsFrom(_, _, _)
TermsFrom(coefficients, ind, deg) ==
    IF deg >= Len(coefficients) THEN ""
    ELSE LET coeff == coefficients[deg + 1]
             term == IF coeff = BD(0) THEN ""
                     ELSE IF deg = 1 THEN " + " \o BDToString(coeff) \o ind
                     ELSE " + " \o BDToString(coeff) \o ind \o "^"
                                \o ToString(deg)
         IN  term \o TermsFrom(coefficients, ind, deg + 1)

\* C13: A.as_string() is "f(x) = c0 + c1x + c2x^2 + ..." with the constant
\* term always present and no term for a zero coefficient at any degree
\* >= 1, degree 1 included.
C13_AsStringOmitsZeroTerms ==
    call.op = "as_string" =>
       call.out = Ok("f(" \o A.indeterminate \o ") = "
                        \o BDToString(A.coefficients[1])
                        \o TermsFrom(A.coefficients, A.indeterminate, 1))

\* C14, as claimed: for every secret and every engine degree d >= 2 the
\* polynomial polynomialGenerator returns has degree exactly d (d + 1
\* coefficients) and constant term the secret, whatever the d draws are.
C14_DegreeExactly ==
    ret.op = "polynomialGenerator" =>
       /\ Polynomial_degree(ret.out.val) = ret.degree
       /\ Len(ret.out.val.coefficients) = ret.degree + 1
       /\ ret.out.val.coefficients[1] = ret.value

\* C14, amended: the polynomial polynomialGenerator returns is normalized,
\* its coefficients are the secret followed by the d draws up to the last
\* nonzero one of them, so its constant term is the secret and its degree
\* is at most d; it is d (d + 1 coefficients) exactly when the last draw
\* is not zero.
C14_DegreeAtMost ==
    ret.op = "polynomialGenerator" =>
       LET c == ret.out.val.coefficients
           full == <<ret.value>> \o [k \in 1..ret.degree |-> BD(ret.cs[k])]
       IN  /\ Canonical(c)
           /\ c[1] = ret.value
           /\ Len(c) <= ret.degree + 1
           /\ c = SubSeq(full, 1, Len(c))
           /\ \A k \in (Len(c) + 1)..(ret.degree + 1) : full[k] = BD(0)
           /\ Polynomial_degree(ret.out.val) <= ret.degree
           /\ (Len(c) = ret.degree + 1) <=> (ret.cs[ret.degree] # 0)

\* polynomialGenerator has returned a polynomial of degree 1 from an engine
\* of degree 3: its last two draws were zero
C14_Witness ==
    /\ ret.op = "polynomialGenerator" /\ ret.degree = 3
    /\ ret.cs[3] = 0 /\ ret.cs[1] # 0
    /\ Polynomial_degree(ret.out.val) = 1

\* C15: termination of coordinate selection.  With a fair random source,
\* for every amount getRandomDifferentNumbers accepts (3 and above, up to
\* the largest u8) its loop eventually ends with exactly amount coordinates.
C15_DrawTerminates ==
    (pc = "draw") ~> (pc = "draw" /\ Len(rand_nums) = req.parties)

\* C16: in create_user every rejection of the parameters comes before
\* anything is persisted.  Once a request has ended, if UserRepository holds
\* its user then secretPartition has returned and holders_count shares were
\* handed to save_muliple_secret: no user is left without its shares.
C16_NoUserWithoutShares ==
    (handler # NoOp /\ pc = "done" /\ users # {})
    => /\ handler.at = "responded"
       /\ Len(partial_secrets) = handler.holders_count
       /\ \A k \in 1..Len(partial_secrets) :
             \E u \in users : partial_secrets[k].user_id = u.id

=============================================================================
